---- MODULE Spec2Model ----
(***************************************************************************)
(* A model of the Data Cloud query client:                                 *)
(*   - run_query (clients/sql.py): submit -> poll -> paginate, with        *)
(*     DirectAPISession._request and cancel_sql_query beside it;           *)
(*   - BaseClient._request and _parse_error_response (clients/base.py),    *)
(*     and _handle_error_response (clients/sql.py) on the same response;   *)
(*   - OAuthSession (oauth.py) and DirectAPISession (direct_api.py):       *)
(*     the credential cache and the expiry-based token brokers, called     *)
(*     sequentially and, statement by statement, from several threads;     *)
(*   - the global session of the tools (tools/base.py, tools/org.py,       *)
(*     sf_cli_auth.py): set_target_org, init_session, ensure_session.      *)
(* Each part has its own specification over its own variables; the         *)
(* variables of the other parts stay at their initial values.              *)
(***************************************************************************)
EXTENDS Integers, Sequences, FiniteSets, TLC

\* ------------------------------------------------------------------ bounds
MaxBatch == 2       \* pagination_batch_size ranges over 1..MaxBatch
MaxTotal == 5       \* rowCount values the server may report: 0..MaxTotal
MaxInline == 2      \* rows the submission response may carry inline
MaxPage == 2        \* rows a rows-fetch response may carry (may exceed the limit)
MaxPolls == 3       \* polls explored before the model stops following the loop
MaxFetch == 3       \* rows fetches explored before the model stops following the loop
MaxCancels == 1     \* cancel_sql_query calls explored beside an execution

\* ------------------------------------------------------------- small helpers
Min(a, b) == IF a < b THEN a ELSE b

CeilDiv(n, d) == (n + d - 1) \div d

\* A JSON field that is absent (or null) in a response; Python's None.
Absent == -1

NoneStr == "None"

RECURSIVE Concat(_)
Concat(ss) == IF ss = <<>> THEN <<>> ELSE Head(ss) \o Concat(Tail(ss))

\* ------------------------------------------------------------ run_query state
VARIABLES
    pc,                  \* position of run_query: auth, submit, poll, paginate, returned, raised;
                         \* of DirectAPISession._request: direct_auth, direct_call, direct_returned, raised
    batch,               \* pagination_batch_size
    query_id,            \* query_id (NoneStr before submission)
    rows,                \* rows: the accumulated result rows
    metadata,            \* metadata captured at submission
    completion,          \* completion: last observed completionStatus
    total_row_count,     \* total_row_count
    poll_count,          \* poll_count
    raised,              \* the exception run_query raised, NoExc if none
    requests,            \* history: the HTTP requests issued, in order
    submit_qids,         \* history: <<status.queryId, queryId>> of the submission response
    inline_rows,         \* history: the data array of the submission response
    reported_row_count,  \* history: the latest rowCount a response carried, Absent if none did
    observed,            \* history: completion statuses observed (submission first)
    pages,               \* history: the data array of each rows response, in order
    returned_rows_field, \* the returnedRows field of the latest rows response
    first_poll_metadata, \* history: the metadata the first poll response carried, when the
                         \* submission carried none
    cancels,             \* history: per cancel_sql_query call, the requests it issued
    last_status          \* history: status code of the latest response given to run_query,
                         \* Absent before any and for a transport failure

qvars == <<pc, batch, query_id, rows, metadata, completion, total_row_count,
           poll_count, raised, requests, submit_qids, inline_rows,
           reported_row_count, observed, pages, returned_rows_field,
           first_poll_metadata, cancels, last_status>>

\* ------------------------------------------------- BaseClient._request state
VARIABLES
    response,            \* the HTTP exchange _request is given: a response or a transport failure
    outcome,             \* what _request did with it: NoOutcome, a return or a raise
    handled              \* what _handle_error_response (clients/sql.py) did with the same
                         \* response: NoOutcome, a return of None or a raise

dvars == <<response, outcome, handled>>

\* ------------------------------- OAuthSession and DirectAPISession state
VARIABLES
    now,                 \* datetime.now(), in minutes
    cache_file,          \* the file TOKEN_CACHE_FILE
    session,             \* "unconstructed" or "constructed": OAuthSession.__init__ has run
    token,               \* OAuthSession.token
    exp,                 \* OAuthSession.exp (Absent: None)
    instance_url,        \* OAuthSession.instance_url
    tenant_token,        \* DirectAPISession.tenant_token
    tenant_url,          \* DirectAPISession.tenant_url
    tenant_token_exp,    \* DirectAPISession.tenant_token_exp (Absent: None)
    oauth_flows,         \* history: the number of OAuth flows run
    exchanges,           \* history: the number of token-exchange POSTs issued
    calls,               \* history: the number of ensure_access / ensure_tenant_access calls
    last_call,           \* history: the latest call, when it was made and what it gave back
    last_exchange,       \* history: what the latest token-exchange POST was answered
    last_saved           \* history: the fields the latest _save_token_to_cache of a
                         \* sequential call wrote to the cache file, NoSave if none did

avars == <<now, cache_file, session, token, exp, instance_url, tenant_token,
           tenant_url, tenant_token_exp, oauth_flows, exchanges, calls, last_call,
           last_exchange, last_saved>>

\* ------------- threads calling the brokers, one statement at a time
VARIABLES
    tpc,                 \* per thread: the statement it executes next
    tret,                \* per thread: where its ensure_access call returns to
    tloc,                \* per thread: its local variables
    tresult,             \* per thread: what its call returned or raised
    file_mode            \* the permission bits of TOKEN_CACHE_FILE ("none": no file)

tvars == <<tpc, tret, tloc, tresult, file_mode>>

\* ------------------------------------- global session state (tools/base.py)
VARIABLES
    _session,            \* tools/base.py _session (NoSession: None)
    _connect_api,        \* tools/base.py _connect_api (NoClient: None)
    _current_org,        \* tools/base.py _current_org (NoneStr: None)
    default_org,         \* DEFAULT_ORG, from the environment (NoneStr: not set)
    orgs_cache,          \* sf_cli._orgs_cache of the module-level SFCLIAuth instance
    cli_orgs,            \* the orgs the SF CLI is logged in to
    sessions,            \* history: the number of SFCLISession objects created
    org_calls,           \* history: the number of tool / helper calls started
    opc,                 \* per thread: the statement it is at
    oloc,                \* per thread: the call's operation, argument and locals
    oresult              \* per thread: how its latest call ended, with the globals
                         \* as they were when the call started

ovars == <<_session, _connect_api, _current_org, default_org, orgs_cache, cli_orgs,
           sessions, org_calls, opc, oloc, oresult>>

vars == <<qvars, dvars, avars, tvars, ovars>>

\* ------------------------------------------------------------ JSON and text
\* A text is either the JSON encoding of a value or a string that is not JSON.
RawText(s) == [json |-> FALSE, s |-> s]

Dumps(v) == [json |-> TRUE, v |-> v]

EmptyText == RawText("")

\* Python values as json.loads produces them; a str carries its text.
Missing == [t |-> "missing"]

JNull == [t |-> "null"]

JNum(n) == [t |-> "num", n |-> n]

JStr(text) == [t |-> "str", text |-> text]

JArr(items) == [t |-> "arr", items |-> items]

\* A JSON object; each of its keys holds a value or is Missing.
JObj(message, error, errorCode) ==
    [t |-> "obj", message |-> message, error |-> error, errorCode |-> errorCode]

\* Python truthiness
PyTruthy(v) ==
    CASE v.t = "num" -> v.n # 0
      [] v.t = "str" -> v.text # EmptyText
      [] v.t = "arr" -> v.items # <<>>
      [] v.t = "obj" -> v.message # Missing \/ v.error # Missing \/ v.errorCode # Missing
      [] OTHER -> FALSE

\* The result of a Python expression: a value, or an exception.
Returned(v) == [exc |-> NoneStr, value |-> v]

Raised(e) == [exc |-> e, value |-> JNull]

\* json.loads / response.json()
JsonLoads(text) == IF text.json THEN Returned(text.v) ELSE Raised("JSONDecodeError")

\* dict.get(key, default)
DictGet(obj, key, default) ==
    LET x == IF key = "message" THEN obj.message
             ELSE IF key = "error" THEN obj.error
             ELSE obj.errorCode
    IN IF x = Missing THEN default ELSE x

\* ------------------------------------------- BaseClient._parse_error_response
\* line 137: payload.get("message", payload.get("error", response.text))
ObjectMessagePreferError(payload, text) ==
    DictGet(payload, "error", DictGet(payload, "message", JStr(text)))

ObjectMessage(payload, text) ==
    DictGet(payload, "message", DictGet(payload, "error", JStr(text)))

\* lines 127-134: the list-wrapped envelope; fall through means "return response.text"
ListMessage(structured_message, text) ==
    IF structured_message.t # "obj" THEN Raised("AttributeError")
    ELSE LET errors_details_json == DictGet(structured_message, "message", JStr(EmptyText))
         IN IF ~PyTruthy(errors_details_json) THEN Returned(JStr(text))
            ELSE IF errors_details_json.t # "str" THEN Raised("TypeError")
            ELSE LET details == JsonLoads(errors_details_json.text)
                 IN IF details.exc # NoneStr
                    THEN Returned(DictGet(structured_message, "message", JStr(text)))
                    ELSE IF PyTruthy(details.value) THEN Returned(errors_details_json)
                    ELSE Returned(JStr(text))

\* lines 121-140
ParseErrorResponse(text) ==
    LET parsed == JsonLoads(text)
    IN IF parsed.exc # NoneStr THEN Returned(JStr(text))
       ELSE LET payload == parsed.value
            IN IF payload.t = "arr" /\ Len(payload.items) > 0
               THEN ListMessage(payload.items[1], text)
               ELSE IF payload.t = "obj" THEN Returned(ObjectMessage(payload, text))
               ELSE Returned(JStr(text))

\* --------------------------------------------------------- BaseClient._request
NoOutcome == [kind |-> "none"]

ReturnValue(v) == [kind |-> "return", value |-> v]

RaiseAPIError(status_code, reason, message) ==
    [kind |-> "raise", type |-> "DataCloudAPIError", status_code |-> status_code,
     reason |-> reason, message |-> message]

RaiseOther(type) ==
    [kind |-> "raise", type |-> type, status_code |-> Absent, reason |-> NoneStr,
     message |-> JNull]

SuccessSentinel == [t |-> "success"]

TransportFailure == [received |-> FALSE]

HttpResponse(status_code, reason, text) ==
    [received |-> TRUE, status_code |-> status_code, reason |-> reason, text |-> text]

\* line 108: response.status_code == 204 or not response.text
IsEmptyResponseBodyOnly(status_code, text) == text = EmptyText

IsEmptyResponse(status_code, text) == status_code = 204 \/ text = EmptyText

\* lines 86-119
RequestOutcome(r) ==
    IF ~r.received THEN RaiseAPIError(0, "RequestError", JStr(RawText("transport")))
    ELSE IF r.status_code >= 400
    THEN LET m == ParseErrorResponse(r.text)
         IN IF m.exc = NoneStr THEN RaiseAPIError(r.status_code, r.reason, m.value)
            ELSE RaiseOther(m.exc)
    ELSE IF IsEmptyResponse(r.status_code, r.text) THEN ReturnValue(SuccessSentinel)
    ELSE LET parsed == JsonLoads(r.text)
         \* requests' JSONDecodeError is a RequestException: line 113 catches it
         IN IF parsed.exc # NoneStr
            THEN RaiseAPIError(0, "RequestError", JStr(RawText("json")))
            ELSE ReturnValue(parsed.value)

\* The response bodies explored
InnerTexts ==
    {EmptyText, RawText("bad SQL"),
     Dumps(JObj(JStr(RawText("bad SQL")), Missing, JStr(RawText("X")))),
     Dumps(JObj(Missing, Missing, Missing)), Dumps(JNull), Dumps(JNum(0)),
     Dumps(JNum(5))}

MessageValues ==
    {Missing, JNull, JNum(0), JNum(5), JObj(Missing, Missing, JStr(RawText("X")))}
    \cup {JStr(x) : x \in InnerTexts}

ErrorValues == {Missing, JStr(RawText("denied"))}

ObjectPayloads == {JObj(m, e, Missing) : m \in MessageValues, e \in ErrorValues}

FirstElements == ObjectPayloads \cup {JStr(RawText("oops")), JNull, JNum(5)}

Payloads ==
    {JArr(<<>>), JNull, JNum(5), JStr(RawText("oops"))}
    \cup ObjectPayloads
    \cup {JArr(<<e>>) : e \in FirstElements}
    \cup {JArr(<<e, JNull>>) : e \in {JObj(JStr(RawText("bad SQL")), Missing, Missing)}}

BodyTexts == {EmptyText, RawText("Internal Server Error")} \cup {Dumps(v) : v \in Payloads}

StatusCodes == {200, 204, 302, 400, 500}

ReasonOf(status_code) ==
    CASE status_code = 200 -> "OK"
      [] status_code = 204 -> "No Content"
      [] status_code = 302 -> "Found"
      [] status_code = 400 -> "Bad Request"
      [] OTHER -> "Internal Server Error"

Responses ==
    {TransportFailure}
    \cup {HttpResponse(s, ReasonOf(s), b) : s \in StatusCodes, b \in BodyTexts}

\* ------------------------------------ _handle_error_response (clients/sql.py)
RaiseQueryError(status_code, reason, message) ==
    [kind |-> "raise", type |-> "DataCloudQueryError", status_code |-> status_code,
     reason |-> reason, message |-> message]

\* sql.py lines 33-42: the list-wrapped envelope; the result is the message kept
HandleListMessage(structured_message, text) ==
    IF structured_message.t # "obj" THEN Raised("AttributeError")
    ELSE LET errors_details_json == DictGet(structured_message, "message", JStr(EmptyText))
         IN IF ~PyTruthy(errors_details_json) THEN Returned(JStr(text))
            ELSE IF errors_details_json.t # "str" THEN Raised("TypeError")
            ELSE LET details == JsonLoads(errors_details_json.text)
                 IN IF details.exc # NoneStr THEN Returned(JStr(text))
                    ELSE IF PyTruthy(details.value) THEN Returned(errors_details_json)
                    ELSE Returned(JStr(text))

\* sql.py line 26
IsErrorStatus(status_code) == status_code >= 300

\* sql.py lines 25-52: returns None below the threshold, raises above it
HandleErrorResponse(r) ==
    IF ~IsErrorStatus(r.status_code) THEN ReturnValue(JNull)
    ELSE LET parsed == JsonLoads(r.text)
         IN IF parsed.exc # NoneStr
            THEN RaiseQueryError(r.status_code, r.reason, JStr(r.text))
            ELSE LET payload == parsed.value
                 IN IF payload.t = "arr" /\ Len(payload.items) > 0
                    THEN LET m == HandleListMessage(payload.items[1], r.text)
                         IN IF m.exc = NoneStr
                            THEN RaiseQueryError(r.status_code, r.reason, m.value)
                            ELSE RaiseOther(m.exc)
                    ELSE RaiseQueryError(r.status_code, r.reason, JStr(r.text))

\* ------------------------------------------------------- run_query (sql.py)
TerminalStatuses == {"Finished", "ResultsProduced"}

SubmitStatuses == {NoneStr, "Running", "Finished", "ResultsProduced"}

PollStatuses == {"Running", "Finished", "ResultsProduced"}

HttpErrorCodes == {302, 500}

MetadataValues == {"[]", "M1"}

\* The metadata a poll response may carry ("[]": none)
PollMetadataValues == {"[]", "M2"}

NoExc == [type |-> "None", status_code |-> Absent, reason |-> NoneStr]

DataCloudQueryError(status_code, reason) ==
    [type |-> "DataCloudQueryError", status_code |-> status_code, reason |-> reason]

\* An exception of the HTTP client (requests.exceptions.RequestException) or of
\* the session, which run_query does not catch.
RawException(type) == [type |-> type, status_code |-> Absent, reason |-> NoneStr]

\* The error responses given to run_query: each status with a body of plain
\* text, and a 500 whose body is a list envelope with a first element that is
\* not an object.
QueryErrorBodies ==
    {RawText("Internal Server Error"), Dumps(JArr(<<JStr(RawText("oops"))>>))}

QueryErrorResponses ==
    {HttpResponse(code, "HttpReason", RawText("Internal Server Error")) :
        code \in HttpErrorCodes}
    \cup {HttpResponse(500, "HttpReason", b) : b \in QueryErrorBodies}

\* The exception run_query leaves with, without its message text
ExceptionOf(o) == [type |-> o.type, status_code |-> o.status_code, reason |-> o.reason]

Request(kind, qid, offset) == [kind |-> kind, query_id |-> qid, offset |-> offset]

\* The HTTP method of each kind of request: sql.py lines 84, 121, 145
\* (requests.post, requests.get, requests.get), client.py line 65 ('DELETE'),
\* direct_api.py line 136 (the caller's method, here a GET)
MethodOfDeletingRows(kind) ==
    IF kind = "submit" THEN "POST" ELSE IF kind \in {"cancel", "rows"} THEN "DELETE" ELSE "GET"

MethodOf(kind) ==
    IF kind = "submit" THEN "POST" ELSE IF kind = "cancel" THEN "DELETE" ELSE "GET"

\* The k-th row of response number src (0: the submission, i: the i-th rows fetch).
Row(src, k) == <<src, k>>

RowsOf(src, n) == [k \in 1..n |-> Row(src, k)]

\* lines 93-94: the truth value of a query id (None and "" are falsy)
TruthyUnlessEmpty(s) == s # ""

Truthy(s) == s # NoneStr /\ s # ""

\* line 93: status_obj.get("queryId") or submit_payload.get("queryId")
QueryIdOf(qidNested, qidTop) == IF Truthy(qidNested) THEN qidNested ELSE qidTop

\* line 106: int(row_count_val) if row_count_val is not None else 0
InitialTotal(rowCount) == IF rowCount # Absent THEN rowCount ELSE 0

\* line 130: int(poll_row_count) if poll_row_count is not None else total_row_count
PollTotal(rowCount, previous) == IF rowCount # Absent THEN rowCount ELSE previous

\* line 110: completion in ["Finished", "ResultsProduced"]
IsTerminalFinishedOnly(c) == c = "Finished"

IsTerminal(c) == c \in TerminalStatuses

\* line 133: len(rows) < total_row_count
MorePages(rs, total) == Len(rs) < total

FetchCount == Len(SelectSeq(requests, LAMBDA r : r.kind = "rows"))

\* line 137: "offset": len(rows)
FetchOffsetByPage(rs) == FetchCount * batch

FetchOffset(rs) == Len(rs)

\* line 154: int(chunk.get("returnedRows", len(chunk_rows)))
ReturnedRowsByLength(field, chunk_rows) == Len(chunk_rows)

ReturnedRows(field, chunk_rows) == IF field # Absent THEN field ELSE Len(chunk_rows)

\* line 163: rows.extend(chunk_rows)
ExtendPrepending(rs, chunk_rows) == chunk_rows \o rs

Extend(rs, chunk_rows) == rs \o chunk_rows

\* Where run_query blocks next once the loop conditions of lines 110 and 133
\* have been evaluated.
NextPc(c, rs, total) ==
    IF ~IsTerminal(c) THEN "poll"
    ELSE IF MorePages(rs, total) THEN "paginate"
    ELSE "returned"

\* (variant) the pagination loop falls back to the polling loop
NextPcPaginateRepoll(rs, total) == IF MorePages(rs, total) THEN "poll" ELSE "returned"

\* After a rows response: only the condition of line 133 is evaluated again.
NextPcPaginate(rs, total) == IF MorePages(rs, total) THEN "paginate" ELSE "returned"

QInit ==
    /\ \/ pc = "auth" /\ batch \in 1..MaxBatch
       \/ pc = "direct_auth" /\ batch = 1
    /\ query_id = NoneStr
    /\ rows = <<>>
    /\ metadata = NoneStr
    /\ completion = NoneStr
    /\ total_row_count = 0
    /\ poll_count = 0
    /\ raised = NoExc
    /\ requests = <<>>
    /\ submit_qids = <<>>
    /\ inline_rows = <<>>
    /\ reported_row_count = Absent
    /\ observed = <<>>
    /\ pages = <<>>
    /\ returned_rows_field = Absent
    /\ first_poll_metadata = NoneStr
    /\ cancels = <<>>
    /\ last_status = Absent

\* An exception leaves the operation at once.
RaiseAndGoOn(exc) ==
    /\ pc' = (IF pc = "auth" THEN "submit"
              ELSE IF pc = "direct_auth" THEN "direct_call" ELSE "raised")
    /\ raised' = exc

Raise(exc) ==
    /\ pc' = "raised"
    /\ raised' = exc

\* lines 70-71: oauth_session.get_instance_url() / get_token()
GetCredential ==
    /\ UNCHANGED <<dvars, avars, tvars, ovars>>
    /\ pc = "auth"
    /\ \/ /\ pc' = "submit"
          /\ UNCHANGED raised
       \/ Raise(RawException("AuthenticationError"))
    /\ UNCHANGED <<batch, query_id, rows, metadata, completion, total_row_count,
                   poll_count, requests, submit_qids, inline_rows,
                   reported_row_count, observed, pages, returned_rows_field,
                   first_poll_metadata, cancels, last_status>>

\* lines 91-106: the submission payload is decoded and captured
SubmitOk(qidNested, qidTop, status, rowCount, nInline, meta) ==
    LET qid == QueryIdOf(qidNested, qidTop)
        rs == RowsOf(0, nInline)
        total == InitialTotal(rowCount)
    IN /\ submit_qids' = <<qidNested, qidTop>>
       /\ query_id' = qid
       /\ IF ~Truthy(qid)
          THEN /\ Raise(DataCloudQueryError(500, "MissingQueryId"))
               /\ UNCHANGED <<rows, metadata, completion, total_row_count,
                              inline_rows, reported_row_count, observed>>
          ELSE /\ rows' = rs
               /\ inline_rows' = rs
               /\ metadata' = meta
               /\ completion' = status
               /\ total_row_count' = total
               /\ reported_row_count' = rowCount
               /\ observed' = <<status>>
               /\ pc' = NextPc(status, rs, total)
               /\ UNCHANGED raised

\* lines 84-106: the submission
Submit ==
    /\ UNCHANGED <<dvars, avars, tvars, ovars>>
    /\ pc = "submit"
    /\ requests' = Append(requests, Request("submit", NoneStr, Absent))
    /\ \/ /\ Raise(RawException("RequestException"))
          /\ last_status' = Absent
          /\ UNCHANGED <<query_id, rows, metadata, completion, total_row_count,
                         submit_qids, inline_rows, reported_row_count, observed>>
       \/ \E r \in QueryErrorResponses :
            /\ Raise(ExceptionOf(HandleErrorResponse(r)))
            /\ last_status' = r.status_code
            /\ UNCHANGED <<query_id, rows, metadata, completion, total_row_count,
                           submit_qids, inline_rows, reported_row_count, observed>>
       \/ \E qidNested \in {NoneStr, "q1"}, qidTop \in {NoneStr, "q2"},
             status \in SubmitStatuses, rowCount \in {Absent} \cup 0..MaxTotal,
             nInline \in 0..MaxInline, meta \in MetadataValues :
            /\ SubmitOk(qidNested, qidTop, status, rowCount, nInline, meta)
            /\ last_status' = 200
    /\ UNCHANGED <<batch, poll_count, pages, returned_rows_field,
                   first_poll_metadata, cancels>>

\* lines 127-130: the poll payload is decoded
PollOk(status, rowCount) ==
    LET total == PollTotal(rowCount, total_row_count)
    IN /\ completion' = status
       /\ total_row_count' = total
       /\ reported_row_count' =
            IF rowCount # Absent THEN rowCount ELSE reported_row_count
       /\ observed' = Append(observed, status)
       /\ pc' = NextPc(status, rows, total)
       /\ UNCHANGED raised

\* lines 110-130: one iteration of the polling loop
Poll ==
    /\ UNCHANGED <<dvars, avars, tvars, ovars>>
    /\ pc = "poll"
    /\ poll_count < MaxPolls
    /\ poll_count' = poll_count + 1
    /\ requests' = Append(requests, Request("poll", query_id, Absent))
    /\ \/ /\ Raise(RawException("RequestException"))
          /\ last_status' = Absent
          /\ UNCHANGED <<completion, total_row_count, reported_row_count, observed,
                         first_poll_metadata>>
       \/ \E r \in QueryErrorResponses :
            /\ Raise(ExceptionOf(HandleErrorResponse(r)))
            /\ last_status' = r.status_code
            /\ UNCHANGED <<completion, total_row_count, reported_row_count, observed,
                           first_poll_metadata>>
       \/ \E status \in PollStatuses, rowCount \in {Absent} \cup 0..MaxTotal :
            /\ PollOk(status, rowCount)
            /\ last_status' = 200
            \* the payload's metadata is not read (lines 127-130); it is
            \* recorded for the first poll after a submission that carried none
            /\ IF poll_count = 0 /\ metadata = "[]"
               THEN \E meta \in PollMetadataValues : first_poll_metadata' = meta
               ELSE UNCHANGED first_poll_metadata
    /\ UNCHANGED <<batch, query_id, rows, metadata, submit_qids, inline_rows,
                   pages, returned_rows_field, cancels>>

\* lines 152-165: the rows response is decoded and appended
FetchOk(n, returnedRows) ==
    LET chunk_rows == RowsOf(FetchCount + 1, n)
        returned_rows == ReturnedRows(returnedRows, chunk_rows)
    IN /\ pages' = Append(pages, chunk_rows)
       /\ returned_rows_field' = returnedRows
       /\ IF returned_rows = 0
          THEN /\ Raise(DataCloudQueryError(500, "MissingRows"))
               /\ UNCHANGED rows
          ELSE /\ rows' = Extend(rows, chunk_rows)
               /\ pc' = NextPcPaginate(rows', total_row_count)
               /\ UNCHANGED raised

\* The returnedRows field of a page of n rows: absent, zero, or disagreeing
\* with the data array (a truthful field acts as an absent one: line 154).
ReturnedRowsChoices(n) == {Absent, 0, n + 1}

\* lines 133-165: one iteration of the pagination loop
FetchRows ==
    /\ UNCHANGED <<dvars, avars, tvars, ovars>>
    /\ pc = "paginate"
    /\ FetchCount < MaxFetch
    /\ requests' = Append(requests, Request("rows", query_id, FetchOffset(rows)))
    /\ \/ /\ Raise(RawException("RequestException"))
          /\ last_status' = Absent
          /\ UNCHANGED <<rows, pages, returned_rows_field>>
       \/ \E r \in QueryErrorResponses :
            /\ Raise(ExceptionOf(HandleErrorResponse(r)))
            /\ last_status' = r.status_code
            /\ UNCHANGED <<rows, pages, returned_rows_field>>
       \/ \E n \in 0..MaxPage :
            \E returnedRows \in ReturnedRowsChoices(n) :
                /\ FetchOk(n, returnedRows)
                /\ last_status' = 200
    /\ UNCHANGED <<batch, query_id, metadata, completion, total_row_count,
                   poll_count, submit_qids, inline_rows, reported_row_count,
                   observed, first_poll_metadata, cancels>>

\* direct_api.py line 122: DirectAPISession._request obtains the tenant credential
DirectEnsureTenantAccess ==
    /\ UNCHANGED <<dvars, avars, tvars, ovars>>
    /\ pc = "direct_auth"
    /\ \/ /\ pc' = "direct_call"
          /\ UNCHANGED raised
       \/ Raise(RawException("AuthenticationError"))
    /\ UNCHANGED <<batch, query_id, rows, metadata, completion, total_row_count,
                   poll_count, requests, submit_qids, inline_rows,
                   reported_row_count, observed, pages, returned_rows_field,
                   first_poll_metadata, cancels, last_status>>

\* direct_api.py lines 136-150: the API call of DirectAPISession._request
DirectCall ==
    /\ UNCHANGED <<dvars, avars, tvars, ovars>>
    /\ pc = "direct_call"
    /\ requests' = Append(requests, Request("api", NoneStr, Absent))
    /\ \/ pc' = "direct_returned" /\ UNCHANGED raised
       \/ Raise(RawException("RequestException"))
       \/ Raise(RawException("HTTPError"))
    /\ UNCHANGED <<batch, query_id, rows, metadata, completion, total_row_count,
                   poll_count, submit_qids, inline_rows,
                   reported_row_count, observed, pages, returned_rows_field,
                   first_poll_metadata, cancels, last_status>>

\* client.py lines 55-65 with base.py lines 74-94: a cancel_sql_query call, made
\* by another caller while the operation above is anywhere in its course.  The
\* session gives the credential or raises (base.py lines 74-76); then one
\* DELETE is sent, whatever its answer.
CancelSqlQuery ==
    /\ UNCHANGED <<dvars, avars, tvars, ovars>>
    /\ Len(cancels) < MaxCancels
    /\ \E credentialOk \in BOOLEAN :
         cancels' = Append(cancels, IF credentialOk
                                    THEN <<Request("cancel", "q1", Absent)>>
                                    ELSE <<>>)
    /\ UNCHANGED <<pc, batch, query_id, rows, metadata, completion, total_row_count,
                   poll_count, raised, requests, submit_qids, inline_rows,
                   reported_row_count, observed, pages, returned_rows_field,
                   first_poll_metadata, last_status>>

\* One public operation: run_query or DirectAPISession._request
QNext ==
    \/ GetCredential \/ Submit \/ Poll \/ FetchRows
    \/ DirectEnsureTenantAccess \/ DirectCall

\* The operation, and cancel_sql_query calls beside it
QCancelNext == QNext \/ CancelSqlQuery

\* No run_query execution: the other specifications leave these variables alone.
QIdle ==
    /\ pc = "idle"
    /\ batch = 1
    /\ query_id = NoneStr
    /\ rows = <<>>
    /\ metadata = NoneStr
    /\ completion = NoneStr
    /\ total_row_count = 0
    /\ poll_count = 0
    /\ raised = NoExc
    /\ requests = <<>>
    /\ submit_qids = <<>>
    /\ inline_rows = <<>>
    /\ reported_row_count = Absent
    /\ observed = <<>>
    /\ pages = <<>>
    /\ returned_rows_field = Absent
    /\ first_poll_metadata = NoneStr
    /\ cancels = <<>>
    /\ last_status = Absent

\* ----------------------------------------------- one response, decoded
DInit ==
    /\ response \in Responses
    /\ outcome = NoOutcome
    /\ handled = NoOutcome

DIdle ==
    /\ response = TransportFailure
    /\ outcome = NoOutcome
    /\ handled = NoOutcome

\* BaseClient._request, from the HTTP exchange to its return or raise
DoRequest ==
    /\ UNCHANGED <<qvars, avars, tvars, ovars>>
    /\ outcome = NoOutcome
    /\ outcome' = RequestOutcome(response)
    /\ UNCHANGED <<response, handled>>

\* _handle_error_response (clients/sql.py), given the same response
DoHandleErrorResponse ==
    /\ UNCHANGED <<qvars, avars, tvars, ovars>>
    /\ response.received
    /\ handled = NoOutcome
    /\ handled' = HandleErrorResponse(response)
    /\ UNCHANGED <<response, outcome>>

DNext == DoRequest \/ DoHandleErrorResponse


\* ------------------------------------------------ credentials and the cache
MaxClock == 330     \* the clock stops advancing here
MaxCalls == 3       \* ensure_access / ensure_tenant_access calls explored
NumThreads == 2     \* threads calling the brokers concurrently

\* oauth.py line 224, direct_api.py line 97: timedelta(minutes=110)
SafetyWindow == 110

\* The clock advances in steps of half a window, so that a call can fall
\* before, exactly on and after an expiry.
ClockStep == SafetyWindow \div 2

StartTime == SafetyWindow

\* config.client_id
ConfiguredClientId == "B"

NoToken == [kind |-> "none"]

CachedToken == [kind |-> "cached"]

PlatformToken(n) == [kind |-> "platform", n |-> n]

TenantToken(n) == [kind |-> "tenant", n |-> n]

\* (variant) isoformat(timespec='hours'): the minutes are dropped
IsoFormatHours(t) == [iso |-> TRUE, t |-> t - (t % 60)]

\* datetime.isoformat / datetime.fromisoformat
IsoFormat(t) == [iso |-> TRUE, t |-> t]

NotIso == [iso |-> FALSE]

\* A key the JSON object does not have: NoKey for a token or an expiry,
\* NoField for a string.
NoKey == [key |-> FALSE]

NoField == "<absent>"

FromIsoFormat(x) == IF x = NoKey THEN Raised("KeyError")
                    ELSE IF ~x.iso THEN Raised("ValueError")
                    ELSE [exc |-> NoneStr, value |-> x.t]

\* The cache file: missing, unreadable, not JSON, or a JSON object whose keys
\* hold a value or are absent (NoKey).
FileMissing == [state |-> "missing"]

FileUnreadable == [state |-> "unreadable"]

FileNotJson == [state |-> "notjson"]

JsonFile(tok, e, url, cid) ==
    [state |-> "json", token |-> tok, exp |-> e, instance_url |-> url, client_id |-> cid]

CachedExpiries ==
    {NoKey, NotIso} \cup {IsoFormat(StartTime + d) : d \in {0 - ClockStep, 0, ClockStep}}

CachedClientIds == {NoField, "", "A", ConfiguredClientId}

\* The files explored: every expiry under every client id, and files that lack
\* the token or the URL.
CacheFiles ==
    {FileMissing, FileUnreadable, FileNotJson}
    \cup {JsonFile(CachedToken, e, "url.cached", cid) :
            e \in CachedExpiries, cid \in CachedClientIds}
    \cup {JsonFile(tok, IsoFormat(StartTime + ClockStep), url, cid) :
            tok \in {NoKey, CachedToken}, url \in {NoField, "url.cached"},
            cid \in {"A", ConfiguredClientId}}

\* The fields of an OAuthSession
Fields(tok, e, url) == [token |-> tok, exp |-> e, instance_url |-> url]

\* oauth.py line 106: cached_client_id and cached_client_id != self.config.client_id
ClientIdChangedNever(cid) == FALSE

ClientIdChanged(cid) == cid # NoField /\ cid # "" /\ cid # ConfiguredClientId

\* oauth.py lines 96-119: _load_cached_token, on fields that are all unset
LoadCachedToken(file, t) ==
    LET unset == Fields(NoToken, Absent, NoneStr)
    IN IF file.state # "json" THEN unset
       ELSE IF ClientIdChanged(file.client_id) THEN unset
       ELSE LET e == FromIsoFormat(file.exp)
            IN IF e.exc # NoneStr THEN unset
               ELSE IF ~(t < e.value) THEN unset
               ELSE IF file.token = NoKey THEN unset
               ELSE IF file.instance_url = NoField
                    THEN Fields(file.token, e.value, NoneStr)
                    ELSE Fields(file.token, e.value, file.instance_url)

\* oauth.py line 216, direct_api.py line 89: exp is not None and now > exp
ExpiredNever(e, t) == FALSE

Expired(e, t) == e # Absent /\ t > e

\* oauth.py line 224, direct_api.py line 97: now + timedelta(minutes=110)
ExpiryFrom(t) == t + SafetyWindow

\* oauth.py lines 121-136: _save_token_to_cache; a failure is logged and swallowed
SaveTokenToCache(file, f, saved) ==
    IF saved THEN JsonFile(f.token, IsoFormat(f.exp), f.instance_url, ConfiguredClientId)
    ELSE file

\* oauth.py lines 215-228: ensure_access on fields f at time t.  flowOk: the
\* OAuth flow succeeds; saved: the cache file can be written.
EnsureAccess(f, file, flows, t, flowOk, saved) ==
    LET cleared == IF Expired(f.exp, t)
                   THEN Fields(NoToken, Absent, f.instance_url)
                   ELSE f
    IN IF cleared.token # NoToken
       THEN [fields |-> cleared, file |-> file, flows |-> flows, raised |-> NoneStr]
       ELSE IF ~flowOk
       THEN [fields |-> cleared, file |-> file, flows |-> flows + 1,
             raised |-> "OAuthFlowError"]
       ELSE LET fresh == Fields(PlatformToken(flows + 1), ExpiryFrom(t), "url.flow")
            IN [fields |-> fresh, file |-> SaveTokenToCache(file, fresh, saved),
                flows |-> flows + 1, raised |-> NoneStr]

\* oauth.py line 226: what the _save_token_to_cache of an ensure_access call
\* wrote; r is the result of the call, flows the number of flows before it
Saved(r, flows, saved, previous) ==
    IF r.raised = NoneStr /\ r.flows > flows /\ saved THEN r.fields ELSE previous

\* The answer to the token-exchange POST (direct_api.py line 59): a transport
\* failure, or a status code with a body that holds a credential
\* ('access_token' and 'instance_url') or does not.
ExchangeResponse(status, hasCredential) ==
    [received |-> TRUE, status_code |-> status, has_credential |-> hasCredential]

ExchangeTransportFailure ==
    [received |-> FALSE, status_code |-> 0, has_credential |-> FALSE]

NoExchange == [received |-> FALSE, status_code |-> Absent, has_credential |-> FALSE]

ExchangeStatusCodes == {200, 400, 500}

ExchangeResponses ==
    {ExchangeTransportFailure}
    \cup {ExchangeResponse(st, c) : st \in ExchangeStatusCodes, c \in BOOLEAN}

\* direct_api.py lines 69-71: if response.status_code >= 400: raise_for_status()
RaisesForStatusServerOnly(status) == status >= 500

RaisesForStatus(status) == status >= 400

\* direct_api.py lines 59-79: what _get_tenant_token raises on the answer x
\* (NoneStr: it returns the credential of the body)
TokenExchangeFailure(x) ==
    IF ~x.received THEN "RequestException"
    ELSE IF RaisesForStatus(x.status_code) THEN "HTTPError"
    ELSE IF ~x.has_credential THEN "KeyError"
    ELSE NoneStr

Call(op, raisedExc, tok, url) ==
    [op |-> op, at |-> now, raised |-> raisedExc, token |-> tok, url |-> url]

NoCall == [op |-> "none"]

NoSave == [saved |-> FALSE]

AInit ==
    /\ now = StartTime
    /\ cache_file \in CacheFiles
    /\ session = "unconstructed"
    /\ token = NoToken
    /\ exp = Absent
    /\ instance_url = NoneStr
    /\ tenant_token = NoToken
    /\ tenant_url = NoneStr
    /\ tenant_token_exp = Absent
    /\ oauth_flows = 0
    /\ exchanges = 0
    /\ calls = 0
    /\ last_call = NoCall
    /\ last_exchange = NoExchange
    /\ last_saved = NoSave

AIdle ==
    /\ now = StartTime
    /\ cache_file = FileMissing
    /\ session = "idle"
    /\ token = NoToken
    /\ exp = Absent
    /\ instance_url = NoneStr
    /\ tenant_token = NoToken
    /\ tenant_url = NoneStr
    /\ tenant_token_exp = Absent
    /\ oauth_flows = 0
    /\ exchanges = 0
    /\ calls = 0
    /\ last_call = NoCall
    /\ last_exchange = NoExchange
    /\ last_saved = NoSave

\* Time passes between calls.
Tick ==
    /\ UNCHANGED <<qvars, dvars, tvars, ovars>>
    /\ now + ClockStep <= MaxClock
    /\ now' = now + ClockStep
    /\ UNCHANGED <<cache_file, session, token, exp, instance_url, tenant_token,
                   tenant_url, tenant_token_exp, oauth_flows, exchanges, calls,
                   last_call, last_exchange, last_saved>>

\* oauth.py lines 89-94: OAuthSession.__init__
Construct ==
    /\ UNCHANGED <<qvars, dvars, tvars, ovars>>
    /\ session = "unconstructed"
    /\ session' = "constructed"
    /\ LET f == LoadCachedToken(cache_file, now)
       IN /\ token' = f.token
          /\ exp' = f.exp
          /\ instance_url' = f.instance_url
    /\ UNCHANGED <<now, cache_file, tenant_token, tenant_url, tenant_token_exp,
                   oauth_flows, exchanges, calls, last_call, last_exchange, last_saved>>

\* oauth.py lines 89-94, direct_api.py lines 31-35: a further OAuthSession and
\* DirectAPISession, with the same configuration, are constructed over the
\* cache file the earlier ones left (the server is started again)
ConstructAgain ==
    /\ UNCHANGED <<qvars, dvars, tvars, ovars>>
    /\ session = "constructed"
    /\ calls >= 1
    /\ last_call.op # "__init__"
    /\ LET f == LoadCachedToken(cache_file, now)
       IN /\ token' = f.token
          /\ exp' = f.exp
          /\ instance_url' = f.instance_url
    /\ tenant_token' = NoToken
    /\ tenant_url' = NoneStr
    /\ tenant_token_exp' = Absent
    /\ last_call' = Call("__init__", NoneStr, NoToken, NoneStr)
    /\ UNCHANGED <<now, cache_file, session, oauth_flows, exchanges, calls,
                   last_exchange, last_saved>>

\* oauth.py lines 215-228: a call of OAuthSession.ensure_access (get_token)
CallEnsureAccess ==
    /\ UNCHANGED <<qvars, dvars, tvars, ovars>>
    /\ session = "constructed"
    /\ calls < MaxCalls
    /\ calls' = calls + 1
    /\ \E flowOk \in BOOLEAN, saved \in BOOLEAN :
         LET r == EnsureAccess(Fields(token, exp, instance_url), cache_file,
                               oauth_flows, now, flowOk, saved)
         IN /\ token' = r.fields.token
            /\ exp' = r.fields.exp
            /\ instance_url' = r.fields.instance_url
            /\ cache_file' = r.file
            /\ oauth_flows' = r.flows
            /\ last_saved' = Saved(r, oauth_flows, saved, last_saved)
            /\ last_call' =
                 IF r.raised # NoneStr
                 THEN Call("ensure_access", r.raised, NoToken, NoneStr)
                 ELSE Call("ensure_access", NoneStr, r.fields.token, NoneStr)
    /\ UNCHANGED <<now, session, tenant_token, tenant_url, tenant_token_exp,
                   exchanges, last_exchange>>

\* direct_api.py lines 81-99 with _get_tenant_token (lines 37-79): a call of
\* DirectAPISession.ensure_tenant_access.  exchange: what the token-exchange
\* POST is answered.
CallEnsureTenantAccess ==
    /\ UNCHANGED <<qvars, dvars, tvars, ovars>>
    /\ session = "constructed"
    /\ calls < MaxCalls
    /\ calls' = calls + 1
    /\ LET expired == Expired(tenant_token_exp, now)
           tok == IF expired THEN NoToken ELSE tenant_token
           url == IF expired THEN NoneStr ELSE tenant_url
       IN IF tok # NoToken
          THEN /\ last_call' = Call("ensure_tenant_access", NoneStr, tok, url)
               /\ UNCHANGED <<token, exp, instance_url, cache_file, oauth_flows,
                              tenant_token, tenant_url, tenant_token_exp, exchanges,
                              last_exchange, last_saved>>
          ELSE \E flowOk \in BOOLEAN, saved \in BOOLEAN,
                  exchange \in ExchangeResponses :
                 \* line 45: ensure_access(); line 46: get_instance_url()
                 LET r == EnsureAccess(Fields(token, exp, instance_url), cache_file,
                                       oauth_flows, now, flowOk, saved)
                     posted == r.raised = NoneStr /\ r.fields.instance_url # NoneStr
                     failure == IF r.raised # NoneStr THEN r.raised
                                ELSE IF ~posted THEN "MissingSchema"
                                ELSE TokenExchangeFailure(exchange)
                 IN /\ token' = r.fields.token
                    /\ exp' = r.fields.exp
                    /\ instance_url' = r.fields.instance_url
                    /\ cache_file' = r.file
                    /\ oauth_flows' = r.flows
                    /\ last_saved' = Saved(r, oauth_flows, saved, last_saved)
                    /\ exchanges' = IF posted THEN exchanges + 1 ELSE exchanges
                    /\ last_exchange' = IF posted THEN exchange ELSE last_exchange
                    /\ IF failure # NoneStr
                       THEN /\ tenant_token' = tok
                            /\ tenant_url' = url
                            /\ UNCHANGED tenant_token_exp
                            /\ last_call' = Call("ensure_tenant_access", failure,
                                                 NoToken, NoneStr)
                       ELSE /\ tenant_token' = TenantToken(exchanges + 1)
                            /\ tenant_url' = "url.tenant"
                            /\ tenant_token_exp' = ExpiryFrom(now)
                            /\ last_call' = Call("ensure_tenant_access", NoneStr,
                                                 tenant_token', tenant_url')
    /\ UNCHANGED <<now, session>>

ANext == Tick \/ Construct \/ CallEnsureAccess \/ CallEnsureTenantAccess

\* The brokers, and a later construction over the cache file they left
ARestartNext == ANext \/ ConstructAgain


\* ------------------------------------------ the brokers under concurrency
\* Threads call ensure_access (oauth.py lines 215-228, with
\* _save_token_to_cache, lines 121-136) and ensure_tenant_access
\* (direct_api.py lines 81-99, with _get_tenant_token, lines 37-79) on the
\* same objects.  A step is one statement; a statement that calls is split
\* into the call and what follows its return.  Every OAuth flow and every
\* token exchange succeeds.
Threads == 1..NumThreads

NoLocals == [auth |-> 0, platform_token |-> NoToken, instance_url |-> NoneStr,
             cache |-> FileMissing, pair |-> 0]

NoResult == [op |-> "none", raised |-> NoneStr, token |-> NoToken, url |-> NoneStr]

Result(op, tok, url) == [op |-> op, raised |-> NoneStr, token |-> tok, url |-> url]

Failure(op, e) == [op |-> op, raised |-> e, token |-> NoToken, url |-> NoneStr]

\* The permission bits of a file that open(..., 'w') creates: 0666 masked by
\* the umask of the process (022 or 077).
CreatedModes == {"0644", "0600"}

PlatformStates ==
    {Fields(NoToken, Absent, NoneStr),
     Fields(CachedToken, StartTime + ClockStep, "url.cached"),
     Fields(CachedToken, StartTime - ClockStep, "url.cached")}

TenantStates ==
    {Fields(NoToken, Absent, NoneStr),
     Fields(TenantToken(0), StartTime + ClockStep, "url.tenant"),
     Fields(TenantToken(0), StartTime - ClockStep, "url.tenant")}

TIdle ==
    /\ tpc = [t \in Threads |-> "idle"]
    /\ tret = [t \in Threads |-> "return"]
    /\ tloc = [t \in Threads |-> NoLocals]
    /\ tresult = [t \in Threads |-> NoResult]
    /\ file_mode = "none"

TInit ==
    /\ now = StartTime
    /\ session = "constructed"
    /\ \E p \in PlatformStates :
         /\ token = p.token /\ exp = p.exp /\ instance_url = p.instance_url
         /\ IF p.token = NoToken
            THEN cache_file = FileMissing /\ file_mode = "none"
            ELSE /\ cache_file = JsonFile(p.token, IsoFormat(p.exp), p.instance_url,
                                          ConfiguredClientId)
                 /\ file_mode = "0600"
    /\ \E d \in TenantStates :
         /\ tenant_token = d.token /\ tenant_token_exp = d.exp
         /\ tenant_url = d.instance_url
    /\ oauth_flows = 0
    /\ exchanges = 0
    /\ calls = 0
    /\ last_call = NoCall
    /\ last_exchange = NoExchange
    /\ last_saved = NoSave
    /\ tpc \in [Threads -> {"ea216", "ta89"}]
    /\ tret = [t \in Threads |-> "return"]
    /\ tloc = [t \in Threads |-> NoLocals]
    /\ tresult = [t \in Threads |-> NoResult]

Goto(t, label) == tpc' = [tpc EXCEPT ![t] = label]

\* What the statements of one broker leave alone.
platformFields == <<token, exp, instance_url>>

tenantFields == <<tenant_token, tenant_url, tenant_token_exp>>

restOfSession == <<now, session, calls, last_call, last_exchange, last_saved>>

OnlyControl(t, label) ==
    /\ Goto(t, label)
    /\ UNCHANGED <<ovars, qvars, dvars, platformFields, tenantFields, restOfSession,
                   cache_file, file_mode, oauth_flows, exchanges, tret, tloc,
                   tresult>>

\* oauth.py line 216: if self.exp is not None and datetime.now() > self.exp
EA216(t) ==
    /\ tpc[t] = "ea216"
    /\ OnlyControl(t, IF Expired(exp, now) THEN "ea217" ELSE "ea220")

\* oauth.py line 217: self.exp = None
EA217(t) ==
    /\ tpc[t] = "ea217"
    /\ exp' = Absent
    /\ Goto(t, "ea218")
    /\ UNCHANGED <<ovars, qvars, dvars, token, instance_url, tenantFields, restOfSession,
                   cache_file, file_mode, oauth_flows, exchanges, tret, tloc,
                   tresult>>

\* oauth.py line 218: self.token = None
EA218(t) ==
    /\ tpc[t] = "ea218"
    /\ token' = NoToken
    /\ Goto(t, "ea220")
    /\ UNCHANGED <<ovars, qvars, dvars, exp, instance_url, tenantFields, restOfSession,
                   cache_file, file_mode, oauth_flows, exchanges, tret, tloc,
                   tresult>>

\* oauth.py line 220: if self.token is None
EA220(t) ==
    /\ tpc[t] = "ea220"
    /\ OnlyControl(t, IF token = NoToken THEN "ea221" ELSE "ea228")

\* oauth.py lines 221-222: auth_info = self._run_oauth_flow(...)
EA221(t) ==
    /\ tpc[t] = "ea221"
    /\ oauth_flows' = oauth_flows + 1
    /\ tloc' = [tloc EXCEPT ![t].auth = oauth_flows + 1]
    /\ Goto(t, "ea223")
    /\ UNCHANGED <<ovars, qvars, dvars, platformFields, tenantFields, restOfSession,
                   cache_file, file_mode, exchanges, tret, tresult>>

\* oauth.py line 223: self.token = auth_info["access_token"]
EA223(t) ==
    /\ tpc[t] = "ea223"
    /\ token' = PlatformToken(tloc[t].auth)
    /\ Goto(t, "ea224")
    /\ UNCHANGED <<ovars, qvars, dvars, exp, instance_url, tenantFields, restOfSession,
                   cache_file, file_mode, oauth_flows, exchanges, tret, tloc,
                   tresult>>

\* oauth.py line 224: self.exp = datetime.now() + timedelta(minutes=110)
EA224(t) ==
    /\ tpc[t] = "ea224"
    /\ exp' = ExpiryFrom(now)
    /\ Goto(t, "ea225")
    /\ UNCHANGED <<ovars, qvars, dvars, token, instance_url, tenantFields, restOfSession,
                   cache_file, file_mode, oauth_flows, exchanges, tret, tloc,
                   tresult>>

\* oauth.py line 225: self.instance_url = auth_info["instance_url"]
EA225(t) ==
    /\ tpc[t] = "ea225"
    /\ instance_url' = "url.flow"
    /\ tloc' = [tloc EXCEPT ![t].auth = 0]
    /\ Goto(t, "sv125")
    /\ UNCHANGED <<ovars, qvars, dvars, token, exp, tenantFields, restOfSession,
                   cache_file, file_mode, oauth_flows, exchanges, tret, tresult>>

\* oauth.py lines 125-130: cache = {...}; self.exp.isoformat() raises when
\* another thread has set exp to None, and line 135 swallows it
SV125(t) ==
    /\ tpc[t] = "sv125"
    /\ IF exp = Absent
       THEN Goto(t, "ea228") /\ UNCHANGED tloc
       ELSE /\ tloc' = [tloc EXCEPT ![t].cache =
                          JsonFile(token, IsoFormat(exp), instance_url,
                                   ConfiguredClientId)]
            /\ Goto(t, "sv131")
    /\ UNCHANGED <<ovars, qvars, dvars, platformFields, tenantFields, restOfSession,
                   cache_file, file_mode, oauth_flows, exchanges, tret, tresult>>

\* oauth.py line 131: open(self.TOKEN_CACHE_FILE, 'w') creates the file, or
\* truncates it and keeps its permission bits
SV131(t) ==
    /\ tpc[t] = "sv131"
    /\ cache_file' = FileNotJson
    /\ IF file_mode = "none"
       THEN file_mode' \in CreatedModes
       ELSE UNCHANGED file_mode
    /\ Goto(t, "sv132")
    /\ UNCHANGED <<ovars, qvars, dvars, platformFields, tenantFields, restOfSession,
                   oauth_flows, exchanges, tret, tloc, tresult>>

\* oauth.py line 132: json.dump(cache, f)
SV132(t) ==
    /\ tpc[t] = "sv132"
    /\ cache_file' = tloc[t].cache
    /\ tloc' = [tloc EXCEPT ![t].cache = FileMissing]
    /\ Goto(t, "sv133")
    /\ UNCHANGED <<ovars, qvars, dvars, platformFields, tenantFields, restOfSession,
                   file_mode, oauth_flows, exchanges, tret, tresult>>

\* oauth.py line 133: os.chmod(self.TOKEN_CACHE_FILE, 0o600)
SV133(t) ==
    /\ tpc[t] = "sv133"
    /\ file_mode' = "0600"
    /\ Goto(t, "ea228")
    /\ UNCHANGED <<ovars, qvars, dvars, platformFields, tenantFields, restOfSession,
                   cache_file, oauth_flows, exchanges, tret, tloc, tresult>>

\* oauth.py line 228: return self.token, to the caller of ensure_access, to
\* direct_api.py line 45 (platform_token = ...) or to oauth.py line 234
EA228(t) ==
    /\ tpc[t] = "ea228"
    /\ CASE tret[t] = "return" ->
              /\ tresult' = [tresult EXCEPT ![t] = Result("ensure_access", token, NoneStr)]
              /\ Goto(t, "done")
              /\ UNCHANGED <<tret, tloc>>
         [] tret[t] = "gt45" ->
              /\ tloc' = [tloc EXCEPT ![t].platform_token = token]
              \* direct_api.py line 46: get_instance_url() calls ensure_access
              /\ tret' = [tret EXCEPT ![t] = "gi235"]
              /\ Goto(t, "ea216")
              /\ UNCHANGED tresult
         [] OTHER ->
              /\ Goto(t, "gi235")
              /\ UNCHANGED <<tret, tloc, tresult>>
    /\ UNCHANGED <<ovars, qvars, dvars, platformFields, tenantFields, restOfSession,
                   cache_file, file_mode, oauth_flows, exchanges>>

\* oauth.py line 235: return self.instance_url (to direct_api.py line 46)
GI235(t) ==
    /\ tpc[t] = "gi235"
    /\ tloc' = [tloc EXCEPT ![t].instance_url = instance_url]
    /\ Goto(t, "gt59")
    /\ UNCHANGED <<ovars, qvars, dvars, platformFields, tenantFields, restOfSession,
                   cache_file, file_mode, oauth_flows, exchanges, tret, tresult>>

\* direct_api.py lines 49-79: the token exchange; a URL built from None has
\* no scheme and requests.post raises MissingSchema
GT59(t) ==
    /\ tpc[t] = "gt59"
    /\ IF tloc[t].instance_url = NoneStr
       THEN /\ tresult' = [tresult EXCEPT ![t] = Failure("ensure_tenant_access", "MissingSchema")]
            /\ tloc' = [tloc EXCEPT ![t] = NoLocals]
            /\ Goto(t, "done")
            /\ UNCHANGED exchanges
       ELSE /\ exchanges' = exchanges + 1
            /\ tloc' = [tloc EXCEPT ![t] = [NoLocals EXCEPT !.pair = exchanges + 1]]
            /\ Goto(t, "ta95")
            /\ UNCHANGED tresult
    /\ UNCHANGED <<ovars, qvars, dvars, platformFields, tenantFields, restOfSession,
                   cache_file, file_mode, oauth_flows, tret>>

\* direct_api.py line 89: if self.tenant_token_exp is not None and now > it
TA89(t) ==
    /\ tpc[t] = "ta89"
    /\ OnlyControl(t, IF Expired(tenant_token_exp, now) THEN "ta91" ELSE "ta94")

\* direct_api.py line 91: self.tenant_token = None
TA91(t) ==
    /\ tpc[t] = "ta91"
    /\ tenant_token' = NoToken
    /\ Goto(t, "ta92")
    /\ UNCHANGED <<ovars, qvars, dvars, platformFields, tenant_url, tenant_token_exp,
                   restOfSession, cache_file, file_mode, oauth_flows, exchanges,
                   tret, tloc, tresult>>

\* direct_api.py line 92: self.tenant_url = None
TA92(t) ==
    /\ tpc[t] = "ta92"
    /\ tenant_url' = NoneStr
    /\ Goto(t, "ta94")
    /\ UNCHANGED <<ovars, qvars, dvars, platformFields, tenant_token, tenant_token_exp,
                   restOfSession, cache_file, file_mode, oauth_flows, exchanges,
                   tret, tloc, tresult>>

\* direct_api.py line 94: if self.tenant_token is None, and line 45: the call
\* of ensure_access in _get_tenant_token
TA94(t) ==
    /\ tpc[t] = "ta94"
    /\ IF tenant_token = NoToken
       THEN /\ tret' = [tret EXCEPT ![t] = "gt45"]
            /\ Goto(t, "ea216")
       ELSE /\ Goto(t, "ta99")
            /\ UNCHANGED tret
    /\ UNCHANGED <<ovars, qvars, dvars, platformFields, tenantFields, restOfSession,
                   cache_file, file_mode, oauth_flows, exchanges, tloc, tresult>>

\* direct_api.py line 95: self.tenant_token, self.tenant_url = (the pair returned)
TA95(t) ==
    /\ tpc[t] = "ta95"
    /\ tenant_token' = TenantToken(tloc[t].pair)
    /\ tenant_url' = "url.tenant"
    /\ tloc' = [tloc EXCEPT ![t] = NoLocals]
    /\ Goto(t, "ta97")
    /\ UNCHANGED <<ovars, qvars, dvars, platformFields, tenant_token_exp, restOfSession,
                   cache_file, file_mode, oauth_flows, exchanges, tret, tresult>>

\* direct_api.py line 97: self.tenant_token_exp = datetime.now() + timedelta(minutes=110)
TA97(t) ==
    /\ tpc[t] = "ta97"
    /\ tenant_token_exp' = ExpiryFrom(now)
    /\ Goto(t, "ta99")
    /\ UNCHANGED <<ovars, qvars, dvars, platformFields, tenant_token, tenant_url,
                   restOfSession, cache_file, file_mode, oauth_flows, exchanges,
                   tret, tloc, tresult>>

\* direct_api.py line 99: return self.tenant_token, self.tenant_url
TA99(t) ==
    /\ tpc[t] = "ta99"
    /\ tresult' = [tresult EXCEPT ![t] = Result("ensure_tenant_access", tenant_token, tenant_url)]
    /\ Goto(t, "done")
    /\ UNCHANGED <<ovars, qvars, dvars, platformFields, tenantFields, restOfSession,
                   cache_file, file_mode, oauth_flows, exchanges, tret, tloc>>

TNext ==
    \E t \in Threads :
        \/ EA216(t) \/ EA217(t) \/ EA218(t) \/ EA220(t) \/ EA221(t) \/ EA223(t)
        \/ EA224(t) \/ EA225(t) \/ SV125(t) \/ SV131(t) \/ SV132(t) \/ SV133(t)
        \/ EA228(t) \/ GI235(t) \/ GT59(t)
        \/ TA89(t) \/ TA91(t) \/ TA92(t) \/ TA94(t) \/ TA95(t) \/ TA97(t) \/ TA99(t)


\* --------------------- org selection (tools/org.py, tools/base.py, sf_cli_auth.py)
MaxOrgCalls == 3    \* set_target_org / init_session / ensure_session calls explored

Orgs == {"a", "b"}

NoSession == [kind |-> "none"]

\* An SFCLISession object: the org its own SFCLIAuth targets, and its identity
SFCLISession(org, id) == [kind |-> "session", org |-> org, id |-> id]

NoClient == [kind |-> "none"]

\* clients/base.py lines 35-43: the client keeps the session object it is given
ConnectAPIClient(s) == [kind |-> "client", oauth_session |-> s]

\* sf_cli_auth.py line 61: _orgs_cache is None until list_orgs has run
NoOrgsCache == [loaded |-> FALSE, orgs |-> {}]

OrgsCache(orgs) == [loaded |-> TRUE, orgs |-> orgs]

\* tools/base.py lines 28-30
Globals ==
    [session |-> _session, connect_api |-> _connect_api, current_org |-> _current_org]

NoOrgLocals == [alias |-> NoneStr, session |-> NoSession, found |-> FALSE]

NoOrgResult == [op |-> "none", ended |-> "none", before |-> NoneStr]

OrgOps == {"set_target_org", "init_session", "ensure_session"}

orgGlobals == <<_session, _connect_api, _current_org>>

orgEnv == <<default_org, orgs_cache, cli_orgs>>

OIdle ==
    /\ _session = NoSession
    /\ _connect_api = NoClient
    /\ _current_org = NoneStr
    /\ default_org = NoneStr
    /\ orgs_cache = NoOrgsCache
    /\ cli_orgs = {}
    /\ sessions = 0
    /\ org_calls = 0
    /\ opc = [t \in Threads |-> "idle"]
    /\ oloc = [t \in Threads |-> NoOrgLocals]
    /\ oresult = [t \in Threads |-> NoOrgResult]

\* The module as imported: no session, DEFAULT_ORG set or not, and the SF CLI
\* logged in to any of the orgs.
OInit ==
    /\ _session = NoSession
    /\ _connect_api = NoClient
    /\ _current_org = NoneStr
    /\ default_org \in {NoneStr, "a"}
    /\ orgs_cache = NoOrgsCache
    /\ cli_orgs \in SUBSET Orgs
    /\ sessions = 0
    /\ org_calls = 0
    /\ opc = [t \in Threads |-> "idle"]
    /\ oloc = [t \in Threads |-> NoOrgLocals]
    /\ oresult = [t \in Threads |-> NoOrgResult]

OGoto(t, label) == opc' = [opc EXCEPT ![t] = label]

\* The call of thread t is over: a tool result (success, failure), a plain
\* return, or an exception that reaches the caller.
OEnd(t, how) ==
    /\ OGoto(t, "done")
    /\ oresult' = [oresult EXCEPT ![t].ended = how]

\* An exception leaves init_session before line 56 has assigned: the tool
\* turns it into success False (tools/org.py lines 30-31), the helpers raise it.
OFail(t) ==
    /\ UNCHANGED _session
    /\ OEnd(t, IF oresult[t].op = "set_target_org" THEN "failure" ELSE "raised")

\* A thread calls set_target_org(alias), init_session(alias) or ensure_session().
StartCall(t) ==
    /\ UNCHANGED <<qvars, dvars, avars, tvars>>
    /\ opc[t] \in {"idle", "done"}
    /\ org_calls < MaxOrgCalls
    /\ org_calls' = org_calls + 1
    /\ \E op \in OrgOps, alias \in Orgs :
         /\ oresult' = [oresult EXCEPT ![t] =
                          [op |-> op, ended |-> "running", before |-> Globals]]
         /\ IF op = "ensure_session"
            THEN /\ oloc' = [oloc EXCEPT ![t] = NoOrgLocals]
                 /\ OGoto(t, "es64")
            ELSE /\ oloc' = [oloc EXCEPT ![t] = [NoOrgLocals EXCEPT !.alias = alias]]
                 /\ OGoto(t, "is56")
    /\ UNCHANGED <<orgGlobals, orgEnv, sessions>>

\* tools/base.py lines 64-72: ensure_session
ES64(t) ==
    /\ UNCHANGED <<qvars, dvars, avars, tvars>>
    /\ opc[t] = "es64"
    /\ IF _session # NoSession
       THEN OEnd(t, "returned") /\ UNCHANGED oloc
       ELSE IF default_org # NoneStr
       THEN /\ oloc' = [oloc EXCEPT ![t].alias = default_org]
            /\ OGoto(t, "is56")
            /\ UNCHANGED oresult
       ELSE OEnd(t, "raised") /\ UNCHANGED oloc
    /\ UNCHANGED <<orgGlobals, orgEnv, sessions, org_calls>>

\* tools/base.py line 56, right-hand side: SFCLISession(SFCLIAuth(), alias)
\* calls set_target_org of a new SFCLIAuth (sf_cli_auth.py lines 154-184),
\* which runs the SF CLI (it may fail) and looks the org up.
IS56(t) ==
    /\ UNCHANGED <<qvars, dvars, avars, tvars>>
    /\ opc[t] = "is56"
    /\ \E cliOk \in BOOLEAN :
         IF cliOk /\ oloc[t].alias \in cli_orgs
         THEN /\ oloc' = [oloc EXCEPT ![t].session =
                            SFCLISession(oloc[t].alias, sessions + 1)]
              /\ sessions' = sessions + 1
              /\ OGoto(t, "is56store")
              /\ UNCHANGED <<_session, oresult>>
         ELSE /\ OFail(t)
              /\ UNCHANGED <<oloc, sessions>>
    /\ UNCHANGED <<_connect_api, _current_org, orgEnv, org_calls>>

\* tools/base.py line 56: _session = ...
IS56store(t) ==
    /\ UNCHANGED <<qvars, dvars, avars, tvars>>
    /\ opc[t] = "is56store"
    /\ _session' = oloc[t].session
    /\ OGoto(t, "is57")
    /\ UNCHANGED <<_connect_api, _current_org, orgEnv, sessions, org_calls, oloc,
                   oresult>>

\* tools/base.py line 57: _connect_api = ConnectAPIClient(_session)
IS57(t) ==
    /\ UNCHANGED <<qvars, dvars, avars, tvars>>
    /\ opc[t] = "is57"
    /\ _connect_api' = ConnectAPIClient(_session)
    /\ OGoto(t, "is58")
    /\ UNCHANGED <<_session, _current_org, orgEnv, sessions, org_calls, oloc,
                   oresult>>

\* tools/base.py line 58: _current_org = alias_or_username; init_session returns
IS58(t) ==
    /\ UNCHANGED <<qvars, dvars, avars, tvars>>
    /\ opc[t] = "is58"
    /\ _current_org' = oloc[t].alias
    /\ IF oresult[t].op = "set_target_org"
       THEN OGoto(t, "org24") /\ UNCHANGED oresult
       ELSE OEnd(t, "returned")
    /\ UNCHANGED <<_session, _connect_api, orgEnv, sessions, org_calls, oloc>>

\* tools/org.py line 24: org = sf_cli.get_org(alias), on the module-level
\* SFCLIAuth (sf_cli_auth.py lines 136-152): its cached org list is used when
\* there is one, else the SF CLI is run (it may fail) and the list is cached.
ORG24(t) ==
    /\ UNCHANGED <<qvars, dvars, avars, tvars>>
    /\ opc[t] = "org24"
    /\ IF orgs_cache.loaded
       THEN /\ oloc' = [oloc EXCEPT ![t].found = oloc[t].alias \in orgs_cache.orgs]
            /\ OGoto(t, "org25")
            /\ UNCHANGED <<orgs_cache, oresult>>
       ELSE \E cliOk \in BOOLEAN :
              IF cliOk
              THEN /\ orgs_cache' = OrgsCache(cli_orgs)
                   /\ oloc' = [oloc EXCEPT ![t].found = oloc[t].alias \in cli_orgs]
                   /\ OGoto(t, "org25")
                   /\ UNCHANGED oresult
              ELSE /\ OEnd(t, "failure")
                   /\ UNCHANGED <<orgs_cache, oloc>>
    /\ UNCHANGED <<orgGlobals, default_org, cli_orgs, sessions, org_calls>>

\* tools/org.py lines 25-31: the result is built; org.display_name raises
\* AttributeError when get_org returned None, and the tool answers success False
ORG25(t) ==
    /\ UNCHANGED <<qvars, dvars, avars, tvars>>
    /\ opc[t] = "org25"
    /\ OEnd(t, IF oloc[t].found THEN "success" ELSE "failure")
    /\ UNCHANGED <<orgGlobals, orgEnv, sessions, org_calls, oloc>>

\* tools/org.py lines 11-14: the list_orgs tool refreshes the cached org list
ListOrgs ==
    /\ UNCHANGED <<qvars, dvars, avars, tvars>>
    /\ orgs_cache' = OrgsCache(cli_orgs)
    /\ orgs_cache' # orgs_cache
    /\ UNCHANGED <<orgGlobals, default_org, cli_orgs, sessions, org_calls, opc, oloc,
                   oresult>>

\* Outside the server, the user logs the SF CLI in to another org.
CliLogin ==
    /\ UNCHANGED <<qvars, dvars, avars, tvars>>
    /\ \E o \in Orgs \ cli_orgs : cli_orgs' = cli_orgs \cup {o}
    /\ UNCHANGED <<orgGlobals, default_org, orgs_cache, sessions, org_calls, opc,
                   oloc, oresult>>

OStep(t) ==
    \/ StartCall(t) \/ ES64(t) \/ IS56(t) \/ IS56store(t) \/ IS57(t) \/ IS58(t)
    \/ ORG24(t) \/ ORG25(t)

\* The calls made one after the other
ONext == ListOrgs \/ CliLogin \/ \E t \in {1} : OStep(t)

\* The calls made by threads
OThreadsNext == ListOrgs \/ CliLogin \/ \E t \in Threads : OStep(t)


\* run_query against an arbitrary server
Init == QInit /\ DIdle /\ AIdle /\ TIdle /\ OIdle

Spec == Init /\ [][QNext]_vars

\* run_query with cancel_sql_query called beside it
SpecCancel == Init /\ [][QCancelNext]_vars

\* BaseClient._request on an arbitrary response
InitDecode == QIdle /\ DInit /\ AIdle /\ TIdle /\ OIdle

SpecDecode == InitDecode /\ [][DNext]_vars

\* One OAuthSession and one DirectAPISession over it, called sequentially
InitAuth == QIdle /\ DIdle /\ AInit /\ TIdle /\ OIdle

SpecAuth == InitAuth /\ [][ANext]_vars

\* The same with the session constructed again between calls, started with no
\* cache file or with one that is still valid
RestartFiles ==
    {FileMissing,
     JsonFile(CachedToken, IsoFormat(StartTime + ClockStep), "url.cached", ConfiguredClientId)}

InitRestart == InitAuth /\ cache_file \in RestartFiles

SpecRestart == InitRestart /\ [][ARestartNext]_vars

\* Threads calling ensure_access and ensure_tenant_access on the same brokers
InitThreads == QIdle /\ DIdle /\ TInit /\ OIdle

SpecThreads == InitThreads /\ [][TNext]_vars

\* Org selection, the calls made one after the other
InitOrg == QIdle /\ DIdle /\ AIdle /\ TIdle /\ OInit

SpecOrg == InitOrg /\ [][ONext]_vars

\* Org selection, the calls made by concurrent threads
SpecOrgThreads == InitOrg /\ [][OThreadsNext]_vars


\* ------------------------------------------------------- run_query: claims
FetchRequests == SelectSeq(requests, LAMBDA r : r.kind = "rows")

PollRequests == SelectSeq(requests, LAMBDA r : r.kind = "poll")

Last(s) == s[Len(s)]

\* The rows run_query held when it issued its i-th rows fetch, from the responses
\* received before it.
AccumulatedBefore(i) == inline_rows \o Concat(SubSeq(pages, 1, i - 1))

\* The server answered the i-th rows fetch with min(B, remaining) rows.
HonestPage(i) ==
    Len(pages[i]) = Min(batch, total_row_count - FetchRequests[i].offset)

HonestServer == \A i \in 1..Len(pages) : HonestPage(i)

\* The latest rows fetch was answered, and its page reports zero returned rows.
LastPageZero ==
    /\ pages # <<>>
    /\ Len(pages) = Len(FetchRequests)
    /\ \/ returned_rows_field = 0
       \/ returned_rows_field = Absent /\ Last(pages) = <<>>

\* C1: pagination completeness.  With no inline rows and a server that answers
\* every rows fetch with min(B, remaining) rows, the rows fetches carry the
\* offsets 0, B, 2B, ..., the accumulated rows are the pages in page order, and
\* run_query returns after exactly ceil(N/B) fetches with exactly N rows.
C1_PaginationComplete ==
    (pc \in {"paginate", "returned"} /\ inline_rows = <<>> /\ HonestServer) =>
        /\ \A i \in 1..Len(FetchRequests) :
              FetchRequests[i].offset = (i - 1) * batch
        /\ rows = Concat(pages)
        /\ pc = "returned" =>
              /\ Len(FetchRequests) = CeilDiv(total_row_count, batch)
              /\ Len(rows) = total_row_count

C1_Witness ==
    /\ pc = "returned" /\ inline_rows = <<>> /\ HonestServer
    /\ batch = 2 /\ total_row_count = 5
    /\ Len(FetchRequests) = 3
    /\ Len(rows) = 5

\* C2: a page that reports zero returned rows (returnedRows = 0, or no
\* returnedRows and an empty data array) makes run_query raise MissingRows;
\* nothing is returned and no request follows it.
C2_ZeroRowsFatal ==
    /\ [](LastPageZero =>
            /\ pc = "raised"
            /\ raised = DataCloudQueryError(500, "MissingRows"))
    /\ [][LastPageZero => requests' = requests /\ pc' = "raised"]_vars

C2_Witness ==
    /\ LastPageZero
    /\ Len(pages) >= 2
    /\ Len(rows) > 0 /\ Len(rows) < total_row_count
    /\ raised.reason = "MissingRows"

\* C3 (as claimed): whenever run_query returns and the row count the server
\* last reported is 0, the returned rows are empty, the metadata is the one
\* captured at submission, and no rows fetch was issued.
C3_EmptyResult ==
    (pc = "returned" /\ reported_row_count = 0) =>
        /\ rows = <<>>
        /\ metadata \in MetadataValues
        /\ FetchRequests = <<>>

\* C4: a successful submission response that carries no query id under
\* status.queryId nor at top level makes run_query raise MissingQueryId, with
\* no poll and no rows fetch issued.
C4_MissingQueryIdFatal ==
    (submit_qids # <<>> /\ submit_qids[1] \in {NoneStr, ""}
        /\ submit_qids[2] \in {NoneStr, ""}) =>
        /\ pc = "raised"
        /\ raised = DataCloudQueryError(500, "MissingQueryId")
        /\ PollRequests = <<>>
        /\ FetchRequests = <<>>

C4_Witness ==
    /\ submit_qids = <<NoneStr, NoneStr>>
    /\ raised.reason = "MissingQueryId"
    /\ Len(requests) = 1

\* C5: the k-th poll is issued only when the status observed just before it
\* (the submission's for k = 1, the previous poll's otherwise) is not terminal,
\* and run_query leaves the polling loop only on a terminal status.
C5_PollStopsOnTerminal ==
    /\ \A k \in 1..Len(PollRequests) :
          k <= Len(observed) /\ observed[k] \notin TerminalStatuses
    /\ pc \in {"paginate", "returned"} =>
          /\ Last(observed) \in TerminalStatuses
          /\ Len(PollRequests) = Len(observed) - 1
    /\ (observed # <<>> /\ observed[1] \in TerminalStatuses) => PollRequests = <<>>

C5_Witness ==
    /\ observed = <<"Running", "Running", "Running", "Finished">>
    /\ Len(PollRequests) = 3
    /\ poll_count = 3
    /\ pc \in {"paginate", "returned"}

\* C6: every rows fetch carries as offset the number of rows accumulated
\* before it (inline rows included), and the rows returned are the inline rows
\* followed by the pages in fetch order.
C6_RowOrderAndOffsets ==
    /\ \A i \in 1..Len(FetchRequests) :
          FetchRequests[i].offset = Len(AccumulatedBefore(i))
    /\ pc \in {"paginate", "returned"} => rows = inline_rows \o Concat(pages)

C6_Witness ==
    /\ pc = "returned"
    /\ Len(inline_rows) = 2 /\ total_row_count = 5 /\ batch = 2
    /\ Len(FetchRequests) = 2
    /\ FetchRequests[1].offset = 2 /\ FetchRequests[2].offset = 4
    /\ rows = <<Row(0, 1), Row(0, 2), Row(1, 1), Row(1, 2), Row(2, 1)>>

\* C7 (as claimed): once a row count has been reported, the accumulated rows
\* never exceed the total, and run_query returns only with exactly that many.
C7_RowCountInvariant ==
    (reported_row_count # Absent /\ pc \in {"poll", "paginate", "returned"}) =>
        /\ Len(rows) <= total_row_count
        /\ pc = "returned" => Len(rows) = total_row_count

\* C13: a transport failure in a network call of run_query reaches the caller
\* as the typed error, never as the raw exception of the HTTP client.
C13_TransportTyped ==
    (requests # <<>> /\ Last(requests).kind \in {"submit", "poll", "rows"}) =>
        raised.type # "RequestException"

\* C14: when obtaining the credential fails, run_query and
\* DirectAPISession._request end with that failure and have issued no request.
C14_AuthenticationFirst ==
    raised = RawException("AuthenticationError") => (pc = "raised" /\ requests = <<>>)

C14_Witness ==
    /\ raised = RawException("AuthenticationError")
    /\ pc = "raised"
    /\ batch = MaxBatch
    /\ requests = <<>>

\* C16: the columns run_query returns are the metadata of the submission or,
\* when the submission carried none and a poll was made, the metadata of the
\* first poll response.
C16_ColumnMetadata ==
    pc = "returned" =>
        \/ metadata # "[]"
        \/ poll_count = 0
        \/ metadata = first_poll_metadata

\* C20: run_query issues no DELETE on any path; each cancel_sql_query call
\* issues at most one request, a DELETE on the per-query endpoint, and leaves
\* the state of the execution beside it unchanged.
C20_CancelExplicitOnly ==
    /\ [](/\ \A i \in 1..Len(requests) : MethodOf(requests[i].kind) # "DELETE"
          /\ \A c \in 1..Len(cancels) :
                /\ Len(cancels[c]) <= 1
                /\ \A i \in 1..Len(cancels[c]) :
                      /\ cancels[c][i].kind = "cancel"
                      /\ MethodOf(cancels[c][i].kind) = "DELETE")
    /\ [][cancels' # cancels =>
            /\ Len(cancels') = Len(cancels) + 1
            /\ UNCHANGED <<pc, batch, query_id, rows, metadata, completion,
                           total_row_count, poll_count, raised, requests>>]_vars

\* A cancel was sent and the execution went on to fetch pages.
C20_Witness ==
    /\ cancels = <<(<<Request("cancel", "q1", Absent)>>)>>
    /\ query_id = "q1"
    /\ pc = "paginate"
    /\ Len(requests) >= 3


\* ------------------------------------------ _parse_error_response: claims
\* _request raised the typed error for an error response whose body is text.
DecodedError(text) ==
    /\ outcome # NoOutcome
    /\ response.received /\ response.status_code >= 400
    /\ response.text = text

\* The body is a JSON array whose first element is an object.
IsListEnvelope(text) ==
    /\ text.json /\ text.v.t = "arr" /\ text.v.items # <<>>
    /\ text.v.items[1].t = "obj"

OuterMessage(text) == text.v.items[1].message

\* The message _request raised with
RaisedMessage == IF outcome.kind = "raise" THEN outcome.message ELSE Missing

\* C8 (as claimed): (1) in the list envelope a 'message' that is a JSON-encoded
\* string is the message; a 'message' string that does not decode is the
\* message; no 'message' gives the raw text; (2) a JSON object gives its
\* 'message', else its 'error', else the raw text; (3) a body that is not JSON
\* gives the raw text.
C8_AsClaimed ==
    \A text \in BodyTexts : DecodedError(text) =>
        /\ (IsListEnvelope(text) /\ OuterMessage(text).t = "str") =>
              RaisedMessage = OuterMessage(text)
        /\ (IsListEnvelope(text) /\ OuterMessage(text) = Missing) =>
              RaisedMessage = JStr(text)
        /\ (text.json /\ text.v.t = "obj") =>
              RaisedMessage =
                 IF text.v.message # Missing THEN text.v.message
                 ELSE IF text.v.error # Missing THEN text.v.error
                 ELSE JStr(text)
        /\ ~text.json => RaisedMessage = JStr(text)

\* The inner 'message' string decodes as JSON to a non-empty (truthy) value.
InnerDecodesTruthy(m) == m.t = "str" /\ m.text.json /\ PyTruthy(m.text.v)

\* The inner 'message' string is not empty and does not decode as JSON.
InnerDecodeFails(m) == m.t = "str" /\ ~m.text.json /\ m.text # EmptyText

\* The inner 'message' is the empty string or decodes to null, zero or an
\* empty value.
InnerIsEmpty(m) ==
    m.t = "str" /\ (m.text = EmptyText \/ (m.text.json /\ ~PyTruthy(m.text.v)))

\* C8 (amended): as claimed, except that in the list envelope the inner JSON
\* string is the message only when it decodes to a non-empty value; an empty
\* 'message' string, or one that decodes to null, zero or an empty value, gives
\* the raw response text.
C8_ErrorEnvelope ==
    \A text \in BodyTexts : DecodedError(text) =>
        /\ (IsListEnvelope(text) /\ InnerDecodesTruthy(OuterMessage(text))) =>
              RaisedMessage = OuterMessage(text)
        /\ (IsListEnvelope(text) /\ InnerDecodeFails(OuterMessage(text))) =>
              RaisedMessage = OuterMessage(text)
        /\ (IsListEnvelope(text) /\ InnerIsEmpty(OuterMessage(text))) =>
              RaisedMessage = JStr(text)
        /\ (IsListEnvelope(text) /\ OuterMessage(text) = Missing) =>
              RaisedMessage = JStr(text)
        /\ (text.json /\ text.v.t = "obj") =>
              RaisedMessage =
                 IF text.v.message # Missing THEN text.v.message
                 ELSE IF text.v.error # Missing THEN text.v.error
                 ELSE JStr(text)
        /\ ~text.json => RaisedMessage = JStr(text)

C8_Witness ==
    /\ outcome.kind = "raise" /\ outcome.type = "DataCloudAPIError"
    /\ response.received /\ response.status_code = 400
    /\ IsListEnvelope(response.text)
    /\ InnerDecodesTruthy(OuterMessage(response.text))
    /\ outcome.message = OuterMessage(response.text)

\* --------------------------------------------------- credentials: claims
\* The session holds nothing from the cache.
\* A response below 400 that _request has dealt with.
Answered == outcome # NoOutcome /\ response.received /\ response.status_code < 400

NothingLoaded == token = NoToken /\ exp = Absent /\ instance_url = NoneStr

FreshlyConstructed == session = "constructed" /\ calls = 0

IsCall(op) == calls' = calls + 1 /\ last_call'.op = op

\* C10: a call made while the in-memory credential exists and now < expiry
\* returns that credential, changes nothing and issues no exchange; a call made
\* with now > expiry issues at most one exchange, and when it returns it has
\* issued exactly one and returns a new credential that expires 110 minutes
\* later.  Likewise for ensure_access and the OAuth flow.
C10_ExpiryWindow ==
    [][/\ (IsCall("ensure_tenant_access") /\ tenant_token # NoToken
             /\ now < tenant_token_exp) =>
            /\ exchanges' = exchanges
            /\ last_call'.raised = NoneStr
            /\ last_call'.token = tenant_token /\ last_call'.url = tenant_url
            /\ UNCHANGED <<tenant_token, tenant_url, tenant_token_exp>>
       /\ (IsCall("ensure_tenant_access") /\ tenant_token_exp # Absent
             /\ now > tenant_token_exp) =>
            /\ exchanges' \in {exchanges, exchanges + 1}
            /\ last_call'.raised = NoneStr =>
                 /\ exchanges' = exchanges + 1
                 /\ tenant_token' # tenant_token
                 /\ last_call'.token = tenant_token'
                 /\ tenant_token_exp' = now + SafetyWindow
       /\ (IsCall("ensure_access") /\ token # NoToken /\ exp # Absent /\ now < exp) =>
            /\ oauth_flows' = oauth_flows
            /\ last_call'.raised = NoneStr
            /\ last_call'.token = token
            /\ UNCHANGED <<token, exp, instance_url>>
       /\ (IsCall("ensure_access") /\ exp # Absent /\ now > exp) =>
            /\ oauth_flows' = oauth_flows + 1
            /\ last_call'.raised = NoneStr =>
                 /\ token' # token
                 /\ last_call'.token = token'
                 /\ exp' = now + SafetyWindow
      ]_vars

\* Two exchanges so far, and the latest call, made after the second exchange
\* and inside its window, got the second credential back.
C10_Witness ==
    /\ exchanges = 2
    /\ calls = 3
    /\ last_call.op = "ensure_tenant_access"
    /\ last_call.raised = NoneStr
    /\ last_call.token = TenantToken(2)
    /\ tenant_token = TenantToken(2)
    /\ last_call.at > tenant_token_exp - SafetyWindow
    /\ last_call.at < tenant_token_exp

\* C12: ensure_access and ensure_tenant_access return a credential they held
\* before the call only at a time now < its expiry (so never at now = expiry),
\* and _load_cached_token loads a cache entry only when now < its expiry.
C12_UsableOnlyBeforeExpiry ==
    [][/\ (IsCall("ensure_access") /\ last_call'.raised = NoneStr
             /\ token # NoToken /\ last_call'.token = token) => now < exp
       /\ (IsCall("ensure_tenant_access") /\ last_call'.raised = NoneStr
             /\ tenant_token # NoToken /\ last_call'.token = tenant_token) =>
            now < tenant_token_exp
       /\ (session = "unconstructed" /\ session' = "constructed"
             /\ token' # NoToken) => now < exp'
      ]_vars

\* A step in which the token-exchange POST is answered with a status >= 400.
IsFailedExchange ==
    /\ exchanges' = exchanges + 1
    /\ last_exchange'.received
    /\ last_exchange'.status_code >= 400

\* C15: a token exchange answered with a status >= 400 makes
\* ensure_tenant_access raise after that one exchange, return no credential
\* and leave the tenant token absent; the call after it, when it returns,
\* returns the credential of a fresh exchange.
C15_FailedExchange ==
    [][/\ exchanges' \in {exchanges, exchanges + 1}
       /\ IsFailedExchange =>
            /\ IsCall("ensure_tenant_access")
            /\ last_call'.raised = "HTTPError"
            /\ last_call'.token = NoToken
            /\ last_call'.url = NoneStr
            /\ tenant_token' = NoToken
       /\ (IsCall("ensure_tenant_access") /\ last_call.op = "ensure_tenant_access"
             /\ last_call.raised = "HTTPError" /\ last_call'.raised = NoneStr) =>
            /\ exchanges' = exchanges + 1
            /\ last_call'.token = TenantToken(exchanges')
            /\ last_call'.url # NoneStr
      ]_vars

\* A credential was held, expired, and the exchange that should renew it was
\* answered 400: the call raised and the tenant token is absent.
C15_Witness ==
    /\ exchanges = 2
    /\ last_exchange = ExchangeResponse(400, TRUE)
    /\ last_call.op = "ensure_tenant_access"
    /\ last_call.raised = "HTTPError"
    /\ tenant_token_exp # Absent
    /\ tenant_token = NoToken

\* The states of the cache file that are load failures.
IsLoadFailure(file) ==
    \/ file.state # "json"
    \/ /\ file.state = "json"
       /\ \/ file.token = NoKey
          \/ file.exp \in {NoKey, NotIso}
          \/ file.instance_url = NoField

\* C17: after the constructor has run on a cache file that is missing,
\* unreadable, not JSON, lacks a field or holds an unparsable expiry, the
\* session holds no token.
C17_LoadFailureIsAbsent ==
    (FreshlyConstructed /\ IsLoadFailure(cache_file)) => token = NoToken

\* ------------------------------------------------ the brokers under concurrency: claims
AllDone == \A t \in Threads : tpc[t] = "done"

\* C11: under every interleaving, each concurrent call returns a token that
\* is not None (and, for ensure_tenant_access, a URL that is not None), and
\* when all calls have returned the brokers hold the result of the last
\* exchange.
C11_ConcurrentRefreshBenign ==
    /\ \A t \in Threads :
          tpc[t] = "done" =>
              /\ tresult[t].raised = NoneStr
              /\ tresult[t].token # NoToken
              /\ tresult[t].op = "ensure_tenant_access" => tresult[t].url # NoneStr
    /\ AllDone =>
          /\ exchanges > 0 =>
                tenant_token = TenantToken(exchanges) /\ tenant_url # NoneStr
          /\ oauth_flows > 0 => token = PlatformToken(oauth_flows)

\* C18: whenever the cache file holds a bearer token, its permission bits are
\* 0600, the states inside _save_token_to_cache included.
C18_CacheFileMode ==
    (cache_file.state = "json" /\ cache_file.token \notin {NoKey, NoToken}) =>
        file_mode = "0600"

\* A rows response was decoded in this step (lines 152-154).
PageDecoded == pages' # pages

\* C21: every decoded page either ends run_query with MissingRows or makes the
\* accumulated rows strictly longer, so the pagination loop issues at most
\* total_row_count rows fetches.
C21_PaginationTerminates ==
    /\ [][PageDecoded =>
            \/ raised' = DataCloudQueryError(500, "MissingRows")
            \/ Len(rows') > Len(rows)]_vars
    /\ [](Len(FetchRequests) <= total_row_count)

\* The requests of a run_query execution (DirectAPISession._request issues "api").
IsRunQuery == requests # <<>> /\ requests[1].kind = "submit"

\* C22: the requests of one run_query execution are one submit, then polls,
\* then rows fetches; every poll and rows fetch carries the query id taken
\* from the submission, and that id is never assigned again.
C22_PhaseOrder ==
    /\ [](IsRunQuery =>
            /\ \A i \in 2..Len(requests) :
                  /\ requests[i].kind \in {"poll", "rows"}
                  /\ requests[i].query_id = QueryIdOf(submit_qids[1], submit_qids[2])
                  /\ requests[i].query_id = query_id
                  /\ Truthy(requests[i].query_id)
            /\ \A i \in 2..Len(requests) : \A j \in i..Len(requests) :
                  requests[i].kind = "rows" => requests[j].kind = "rows")
    /\ [][requests # <<>> => query_id' = query_id]_vars

\* submit, two polls and two rows fetches, all keyed by the nested query id
C22_Witness ==
    /\ pc = "returned"
    /\ Len(requests) = 5
    /\ [i \in 1..5 |-> requests[i].kind] = <<"submit", "poll", "poll", "rows", "rows">>
    /\ submit_qids = <<"q1", "q2">>
    /\ requests[5].query_id = "q1"

\* The latest response was a protocol violation: a submission without a query
\* id (lines 94-99) or a page reporting no rows (lines 156-161).
ProtocolViolation ==
    /\ last_status = 200
    /\ \/ Last(requests).kind = "submit" /\ ~Truthy(QueryIdOf(submit_qids[1], submit_qids[2]))
       \/ /\ Last(requests).kind = "rows"
          /\ ReturnedRows(returned_rows_field, Last(pages)) = 0

\* C23: when a response of run_query is an API error (status >= 400) or a
\* protocol violation, run_query has raised a failure carrying the status code
\* of that response (500 for a protocol violation), it issues no further
\* request, and it never returns the rows accumulated so far.
C23_NoSwallowedFailure ==
    /\ [](IsRunQuery /\ last_status # Absent /\ last_status >= 400 =>
            /\ pc = "raised"
            /\ raised.status_code = last_status)
    /\ [](IsRunQuery /\ ProtocolViolation =>
            /\ pc = "raised"
            /\ raised.type = "DataCloudQueryError" /\ raised.status_code = 500)
    /\ [][pc = "raised" => requests' = requests]_vars

\* Both error paths have been given the response.
BothDecoded == response.received /\ outcome # NoOutcome /\ handled # NoOutcome

\* The (status_code, reason, message) triple of a raise
Triple(o) == <<o.status_code, o.reason, o.message>>

\* C24: for every response the error path of run_query and the error path of
\* BaseClient._request agree: one raises exactly when the other does, and with
\* the same status code, reason and message.
C24_SharedDecoder ==
    BothDecoded =>
        /\ (handled.kind = "raise") <=> (outcome.kind = "raise")
        /\ handled.kind = "raise" => Triple(handled) = Triple(outcome)

\* C25: BaseClient._request raises the error with status 0 and reason
\* RequestError only when no response was received; a received response is
\* returned as a value below 400 and raised with its own status code from 400.
C25_StatusZeroIsTransport ==
    outcome # NoOutcome =>
        /\ (outcome.kind = "raise" /\ outcome.status_code = 0) => ~response.received
        /\ response.received =>
              IF response.status_code < 400
              THEN outcome.kind = "return"
              ELSE /\ outcome.kind = "raise"
                   /\ outcome.status_code = response.status_code

\* C26: for every response with status 400 or above, whatever its body,
\* BaseClient._request raises DataCloudAPIError with the status code and reason
\* of the response and a string as message, and no other exception.
C26_DecoderTotal ==
    (outcome # NoOutcome /\ response.received /\ response.status_code >= 400) =>
        /\ outcome.kind = "raise"
        /\ outcome.type = "DataCloudAPIError"
        /\ outcome.status_code = response.status_code
        /\ outcome.reason = response.reason
        /\ outcome.message.t = "str"

\* A step that constructs the session again.
IsConstructAgain == last_call'.op = "__init__" /\ last_call.op # "__init__"

C28_LoadAllOrNothing ==
    /\ FreshlyConstructed =>
          \/ NothingLoaded
          \/ /\ cache_file.state = "json"
             /\ token = cache_file.token /\ token # NoToken
             /\ exp # Absent /\ IsoFormat(exp) = cache_file.exp
             /\ instance_url = cache_file.instance_url /\ instance_url # NoneStr
    /\ (session = "constructed" /\ token # NoToken) =>
          (exp # Absent /\ instance_url # NoneStr)

\* ---------------------------------------------------- org selection: claims
\* The set_target_org tool of thread t has answered success False.
SwitchFailed(t) ==
    opc[t] = "done" /\ oresult[t].op = "set_target_org" /\ oresult[t].ended = "failure"

\* C29: whenever the set_target_org tool answers success False, the globals
\* _session, _connect_api and _current_org are what they were before the call.
C29_FailedSwitchKeepsSession ==
    \A t \in Threads : SwitchFailed(t) => Globals = oresult[t].before

AllOrgCallsDone == \A t \in Threads : opc[t] \in {"idle", "done"}

\* The three globals are all unset, or name one org with the client bound to
\* the stored session object.
GlobalsAgree ==
    \/ _session = NoSession /\ _connect_api = NoClient /\ _current_org = NoneStr
    \/ /\ _session # NoSession
       /\ _connect_api = ConnectAPIClient(_session)
       /\ _current_org = _session.org

\* A step in which an ensure_session call stores a session.
EnsureSessionStores ==
    \E t \in Threads :
        /\ opc[t] = "is56store" /\ opc'[t] = "is57"
        /\ oresult[t].op = "ensure_session"

\* C30: once all calls have completed the three globals agree, and
\* ensure_session never replaces an existing session.
C30_GlobalSessionConsistent ==
    /\ [](AllOrgCallsDone => GlobalsAgree)
    /\ [][EnsureSessionStores => _session = NoSession]_vars

====
